---- MODULE Spec2Model ----
(***************************************************************************)
(* Model of github.com/tempcke/feature (feature.go): the resolver          *)
(* IsEnabled (context > environment > registry > false), the registry      *)
(* mutators Enable/Disable, the context derivations EnableInCtx /          *)
(* DisableInCtx, and the request extractor ReqWithFeatureCtx.              *)
(*                                                                         *)
(* Go strings are sequences of one-character strings, so that ToLower,     *)
(* ToUpper, HasPrefix and TrimPrefix are computed and not assumed.         *)
(* Contexts and requests live in heaps (ctxs, reqs) and are referred to by *)
(* index, so that "the input is not mutated" is something a step can       *)
(* break. Context 0 is context.Background().                               *)
(***************************************************************************)
EXTENDS Integers, Sequences, FiniteSets

VARIABLES
    defaultState,   \* feature.go:35  map[Feature]bool, the global registry
    env,            \* the process environment read by os.Getenv
    ctxs,           \* heap of context.WithValue nodes [parent, key, val]
    reqs,           \* heap of *http.Request values [ctx, query, header]
    th,             \* per goroutine: its access to defaultState in flight
    crashed,        \* the Go runtime aborted on a concurrent map access
    lastCall        \* history: per flag, the last of Enable/Disable called on it

vars == <<defaultState, env, ctxs, reqs, th, crashed, lastCall>>

---------------------------------------------------------------------------
(* Bounds *)

MaxCtx == 2        \* context nodes allocated by EnableInCtx/DisableInCtx
MaxEntries == 2    \* key/value entries of the inbound request
MaxReqs == 2       \* requests on the heap (the inbound one and derived ones)
NumThreads == 2    \* goroutines calling Enable/Disable/IsEnabled

---------------------------------------------------------------------------
(* Strings *)

UpperLetters ==
    <<"A","B","C","D","E","F","G","H","I","J","K","L","M",
      "N","O","P","Q","R","S","T","U","V","W","X","Y","Z">>

LowerLetters ==
    <<"a","b","c","d","e","f","g","h","i","j","k","l","m",
      "n","o","p","q","r","s","t","u","v","w","x","y","z">>

IndexIn(letters, c) == CHOOSE i \in 1..Len(letters) : letters[i] = c

\* unicode.ToLower and unicode.ToUpper on the ASCII letters, as tables
LowerOf ==
    [c \in {UpperLetters[i] : i \in 1..Len(UpperLetters)} |->
        LowerLetters[IndexIn(UpperLetters, c)]]

UpperOf ==
    [c \in {LowerLetters[i] : i \in 1..Len(LowerLetters)} |->
        UpperLetters[IndexIn(LowerLetters, c)]]

\* strings.ToLower, on ASCII
ToLower(s) ==
    [i \in 1..Len(s) |-> IF s[i] \in DOMAIN LowerOf THEN LowerOf[s[i]] ELSE s[i]]

\* strings.ToUpper, on ASCII
ToUpper(s) ==
    [i \in 1..Len(s) |-> IF s[i] \in DOMAIN UpperOf THEN UpperOf[s[i]] ELSE s[i]]

\* strings.HasPrefix
HasPrefix(s, prefix) ==
    /\ Len(s) >= Len(prefix)
    /\ SubSeq(s, 1, Len(prefix)) = prefix

\* strings.TrimPrefix
TrimPrefix(s, prefix) ==
    IF HasPrefix(s, prefix) THEN SubSeq(s, Len(prefix) + 1, Len(s)) ELSE s

QueryPrefix == <<"f","e","a","t","u","r","e","-">>
HeaderPrefix == <<"x","-","f","e","a","t","u","r","e","-">>
EnvPrefix == <<"X","_","F","E","A","T","U","R","E","_">>

\* The literals strconv.ParseBool accepts.
TrueLiterals ==
    { <<"1">>, <<"t">>, <<"T">>, <<"t","r","u","e">>,
      <<"T","R","U","E">>, <<"T","r","u","e">> }

FalseLiterals ==
    { <<"0">>, <<"f">>, <<"F">>, <<"f","a","l","s","e">>,
      <<"F","A","L","S","E">>, <<"F","a","l","s","e">> }

\* strconv.ParseBool: the value, and whether it reported a syntax error
ParseBool(str) ==
    [val |-> str \in TrueLiterals,
     err |-> str \notin (TrueLiterals \cup FalseLiterals)]

---------------------------------------------------------------------------
(* Inputs *)

\* "pg" and "Pg" spell one flag, "b" is another.
pg == <<"p","g">>
Pg == <<"P","g">>
beta == <<"b">>

\* Feature names as callers spell them.
Names == {pg, Pg, beta}

\* Values given to environment variables, query parameters and headers.
Values ==
    TrueLiterals \cup FalseLiterals \cup { <<>>, <<"y","e","s">> }

\* Keys of query parameters: two spellings that carry the prefix, and one
\* that does not.
QueryKeys ==
    { QueryPrefix \o pg,
      <<"F","e","a","t","u","r","e","-">> \o Pg,
      HeaderPrefix \o pg }

\* Keys of headers, as http.Header stores them: the canonical spelling of
\* x-feature-pg, and one that does not carry the prefix.
HeaderKeys ==
    { <<"X","-","F","e","a","t","u","r","e","-">> \o Pg,
      <<"F","e","a","t","u","r","e","-">> \o Pg }

\* Environment variables the test environment sets.
EnvKeys == { EnvPrefix \o ToUpper(pg) }

\* The flags the names spell (names are case-insensitive).
Flags == {ToLower(n) : n \in Names}

Threads == 1..NumThreads

---------------------------------------------------------------------------
(* Maps and contexts *)

\* m[k] of a Go map[..]bool: the zero value when k is absent
MapGet(m, k) == IF k \in DOMAIN m THEN m[k] ELSE FALSE

\* m[k] = v of a Go map
MapSet(m, k, v) == [x \in (DOMAIN m) \cup {k} |-> IF x = k THEN v ELSE m[x]]

\* os.Getenv: "" when the variable is unset
Getenv(key) == IF key \in DOMAIN env THEN env[key] ELSE <<>>

\* ctx.Value(key) on the chain of heap h that starts at c
RECURSIVE Value(_, _, _)
Value(h, c, key) ==
    IF c = 0 THEN [found |-> FALSE, val |-> FALSE]
    ELSE IF h[c].key = key THEN [found |-> TRUE, val |-> h[c].val]
    ELSE Value(h, h[c].parent, key)

\* context.WithValue(parent, key, val): a new node, the heap otherwise as it was
WithValue(h, parent, key, val) ==
    Append(h, [parent |-> parent, key |-> key, val |-> val])

---------------------------------------------------------------------------
(* Resolver *)

\* isEnabledInEnv without the v != "" test: unset counts as defined
isEnabledInEnvNoEmptyTest(name) ==
    LET key == EnvPrefix \o ToUpper(name)
        v == Getenv(key)
    IN  [result |-> ParseBool(v).val, ok |-> TRUE]

isEnabledInEnv(name) ==
    LET key == EnvPrefix \o ToUpper(name)
        v == Getenv(key)
    IN  IF v # <<>>
        THEN [result |-> ParseBool(v).val, ok |-> TRUE]
        ELSE [result |-> FALSE, ok |-> FALSE]

\* IsEnabled on the heap h
IsEnabledIn(h, c, name) ==
    LET lname == ToLower(name)
        v == Value(h, c, lname)
        e == isEnabledInEnv(lname)
    IN  IF v.found THEN v.val
        ELSE IF e.ok THEN e.result
        ELSE MapGet(defaultState, lname)

IsEnabled(c, name) == IsEnabledIn(ctxs, c, name)

---------------------------------------------------------------------------
(* Request extractor *)

\* url.Values.Get: the first value of the key, "" when there is none
Get(values, key) ==
    IF key \in DOMAIN values /\ Len(values[key]) > 0
    THEN values[key][1]
    ELSE <<>>

\* url.Values.Add / http.Header append: one more value under the key
Add(values, key, v) ==
    [x \in (DOMAIN values) \cup {key} |->
        IF x = key
        THEN (IF key \in DOMAIN values THEN Append(values[key], v) ELSE <<v>>)
        ELSE values[x]]

\* The orders in which "for key := range values" may visit the keys.
Orders(values) ==
    LET n == Cardinality(DOMAIN values)
    IN  {o \in [1..n -> DOMAIN values] :
            \A i, j \in 1..n : i # j => o[i] # o[j]}

\* flagValue without the strVal == "" case
flagValueParsedOnly(strVal) == ParseBool(strVal).val

\* The boolean fromValues records for a value: strVal == "" || val
flagValue(strVal) == strVal = <<>> \/ ParseBool(strVal).val

\* The body of the loop of fromValues, for one key
fromValuesStep(s, values, key, prefix) ==
    LET lowerKey == ToLower(key)
    IN  IF HasPrefix(lowerKey, prefix)
        THEN LET trimKey == TrimPrefix(lowerKey, prefix)
                 strVal == Get(values, key)
             IN  [heap |-> WithValue(s.heap, s.ctx, trimKey, flagValue(strVal)),
                  ctx |-> Len(s.heap) + 1]
        ELSE s

\* fromValues, its loop visiting the keys in the order given; s is the
\* heap and the context so far
RECURSIVE fromValuesLoop(_, _, _, _, _)
fromValuesLoop(s, values, order, i, prefix) ==
    IF i > Len(order) THEN s
    ELSE fromValuesLoop(fromValuesStep(s, values, order[i], prefix),
                        values, order, i + 1, prefix)

fromValues(s, values, order, prefix) ==
    fromValuesLoop(s, values, order, 1, prefix)

\* featureCtx with the two calls of fromValues swapped
featureCtxHeaderFirst(h, c, query, qorder, header, horder) ==
    LET q == fromValues([heap |-> h, ctx |-> c], header, horder, HeaderPrefix)
    IN  fromValues(q, query, qorder, QueryPrefix)

\* The context ReqWithFeatureCtx builds: the query first, then the headers
featureCtx(h, c, query, qorder, header, horder) ==
    LET q == fromValues([heap |-> h, ctx |-> c], query, qorder, QueryPrefix)
    IN  fromValues(q, header, horder, HeaderPrefix)

\* The number of values a collection holds.
RECURSIVE CountOver(_, _)
CountOver(values, keys) ==
    IF keys = {} THEN 0
    ELSE LET k == CHOOSE k \in keys : TRUE
         IN  Len(values[k]) + CountOver(values, keys \ {k})

Entries(req) ==
    CountOver(req.query, DOMAIN req.query)
    + CountOver(req.header, DOMAIN req.header)

---------------------------------------------------------------------------
(* Operations *)

EmptyMap == [x \in {} |-> FALSE]
NoValues == [x \in {} |-> <<>>]
Idle == [op |-> "idle", name |-> <<>>, val |-> FALSE, raced |-> FALSE]

Init ==
    /\ defaultState = EmptyMap
    /\ env = NoValues
    /\ ctxs = <<>>
    /\ reqs = << [ctx |-> 0, query |-> NoValues, header |-> NoValues] >>
    /\ th = [t \in Threads |-> Idle]
    /\ crashed = FALSE
    /\ lastCall = [f \in Flags |-> "none"]

Enable(name) ==
    /\ defaultState' = MapSet(defaultState, name, TRUE)
    /\ lastCall' = [lastCall EXCEPT ![ToLower(name)] = "Enable"]
    /\ UNCHANGED <<env, ctxs, reqs, th, crashed>>

Disable(name) ==
    /\ defaultState' = MapSet(defaultState, name, FALSE)
    /\ lastCall' = [lastCall EXCEPT ![ToLower(name)] = "Disable"]
    /\ UNCHANGED <<env, ctxs, reqs, th, crashed>>

EnableInCtx(c, f) ==
    /\ Len(ctxs) < MaxCtx
    /\ ctxs' = WithValue(ctxs, c, f, TRUE)
    /\ UNCHANGED <<defaultState, env, reqs, th, crashed, lastCall>>

DisableInCtx(c, f) ==
    /\ Len(ctxs) < MaxCtx
    /\ ctxs' = WithValue(ctxs, c, f, FALSE)
    /\ UNCHANGED <<defaultState, env, reqs, th, crashed, lastCall>>

\* os.Setenv, done by the surroundings (the tests set X_FEATURE_<NAME>)
Setenv(key, v) ==
    /\ env' = [x \in (DOMAIN env) \cup {key} |-> IF x = key THEN v ELSE env[x]]
    /\ UNCHANGED <<defaultState, ctxs, reqs, th, crashed, lastCall>>

\* a call of IsEnabled: it reads and changes nothing
IsEnabledCall(c, name) ==
    /\ IsEnabled(c, name) \in BOOLEAN
    /\ UNCHANGED vars

\* The inbound request is built before the middleware sees it: one more
\* query parameter (url.Values of req.URL.Query())
AddQuery(key, v) ==
    /\ Len(reqs) = 1
    /\ Entries(reqs[1]) < MaxEntries
    /\ reqs' = [reqs EXCEPT ![1].query = Add(reqs[1].query, key, v)]
    /\ UNCHANGED <<defaultState, env, ctxs, th, crashed, lastCall>>

\* one more header value (req.Header, keyed as stored)
AddHeader(key, v) ==
    /\ Len(reqs) = 1
    /\ Entries(reqs[1]) < MaxEntries
    /\ reqs' = [reqs EXCEPT ![1].header = Add(reqs[1].header, key, v)]
    /\ UNCHANGED <<defaultState, env, ctxs, th, crashed, lastCall>>

\* req.WithContext(ctx): a shallow copy of the request bound to ctx
ReqWithFeatureCtx(r) ==
    /\ Len(reqs) < MaxReqs
    /\ \E qorder \in Orders(reqs[r].query), horder \in Orders(reqs[r].header) :
          LET d == featureCtx(ctxs, reqs[r].ctx, reqs[r].query, qorder,
                              reqs[r].header, horder)
          IN  /\ ctxs' = d.heap
              /\ reqs' = Append(reqs, [reqs[r] EXCEPT !.ctx = d.ctx])
    /\ UNCHANGED <<defaultState, env, th, crashed, lastCall>>

---------------------------------------------------------------------------
(* Goroutines.  feature.go takes no lock: Enable and Disable assign to   *)
(* defaultState and IsEnabled indexes it, each a map access that takes   *)
(* time.  An access that overlaps a write of another goroutine is a data *)
(* race; the Go runtime may abort ("concurrent map writes", "concurrent  *)
(* map read and map write") or let the access through.                   *)

InFlight(t) == th[t].op # "idle"

\* the access of goroutine t conflicts with one of kind op starting now
Conflicts(t, op) == InFlight(t) /\ (th[t].op = "write" \/ op = "write")

\* goroutine t starts the access; every access it overlaps is marked too
Start(t, op, name, val) ==
    th' = [u \in Threads |->
            IF u = t
            THEN [op |-> op, name |-> name, val |-> val,
                  raced |-> \E o \in Threads \ {t} : Conflicts(o, op)]
            ELSE IF Conflicts(u, op) THEN [th[u] EXCEPT !.raced = TRUE]
            ELSE th[u]]

\* Enable(name) reaches "defaultState[name] = true"
EnableStart(t, name) ==
    /\ ~crashed
    /\ ~InFlight(t)
    /\ Start(t, "write", name, TRUE)
    /\ UNCHANGED <<defaultState, env, ctxs, reqs, crashed, lastCall>>

\* Disable(name) reaches "defaultState[name] = false"
DisableStart(t, name) ==
    /\ ~crashed
    /\ ~InFlight(t)
    /\ Start(t, "write", name, FALSE)
    /\ UNCHANGED <<defaultState, env, ctxs, reqs, crashed, lastCall>>

\* the assignment completes, or the runtime aborts when it was raced
MapWriteDone(t) ==
    /\ ~crashed
    /\ th[t].op = "write"
    /\ \/ /\ defaultState' = MapSet(defaultState, th[t].name, th[t].val)
          /\ lastCall' = [lastCall EXCEPT
                            ![ToLower(th[t].name)] =
                                IF th[t].val THEN "Enable" ELSE "Disable"]
          /\ UNCHANGED crashed
       \/ /\ th[t].raced
          /\ crashed' = TRUE
          /\ UNCHANGED <<defaultState, lastCall>>
    /\ th' = [th EXCEPT ![t] = Idle]
    /\ UNCHANGED <<env, ctxs, reqs>>

\* IsEnabled(ctx, name) reaches "return defaultState[name]": neither the
\* context nor the environment defines the flag
IsEnabledStart(t, c, name) ==
    /\ ~crashed
    /\ ~InFlight(t)
    /\ ~Value(ctxs, c, ToLower(name)).found
    /\ ~isEnabledInEnv(ToLower(name)).ok
    /\ Start(t, "read", ToLower(name), FALSE)
    /\ UNCHANGED <<defaultState, env, ctxs, reqs, crashed, lastCall>>

\* the read completes, or the runtime aborts when it was raced
MapReadDone(t) ==
    /\ ~crashed
    /\ th[t].op = "read"
    /\ \/ UNCHANGED crashed
       \/ /\ th[t].raced
          /\ crashed' = TRUE
    /\ th' = [th EXCEPT ![t] = Idle]
    /\ UNCHANGED <<defaultState, env, ctxs, reqs, lastCall>>

---------------------------------------------------------------------------
(* Specifications *)

\* The resolver, single-threaded: registry, environment and contexts.
Next ==
    \/ \E name \in Names : Enable(name)
    \/ \E name \in Names : Disable(name)
    \/ \E c \in 0..Len(ctxs), f \in Names : EnableInCtx(c, f)
    \/ \E c \in 0..Len(ctxs), f \in Names : DisableInCtx(c, f)
    \/ \E key \in EnvKeys, v \in Values : Setenv(key, v)
    \/ \E c \in 0..Len(ctxs), name \in Names : IsEnabledCall(c, name)

Spec == Init /\ [][Next]_vars

\* The middleware on an inbound request, in a process that has called
\* Enable("pg"): what a request leaves undefined resolves from the registry.
InitReq ==
    /\ defaultState = MapSet(EmptyMap, pg, TRUE)
    /\ lastCall = [f \in Flags |-> IF f = pg THEN "Enable" ELSE "none"]
    /\ env = NoValues
    /\ ctxs = <<>>
    /\ reqs = << [ctx |-> 0, query |-> NoValues, header |-> NoValues] >>
    /\ th = [t \in Threads |-> Idle]
    /\ crashed = FALSE

NextReq ==
    \/ \E key \in QueryKeys, v \in Values : AddQuery(key, v)
    \/ \E key \in HeaderKeys, v \in Values : AddHeader(key, v)
    \/ \E r \in 1..Len(reqs) : ReqWithFeatureCtx(r)
    \/ \E r \in 1..Len(reqs), name \in Names : IsEnabledCall(reqs[r].ctx, name)

SpecReq == InitReq /\ [][NextReq]_vars

\* Goroutines on the registry.
NextConc ==
    \/ \E t \in Threads, name \in Names : EnableStart(t, name)
    \/ \E t \in Threads, name \in Names : DisableStart(t, name)
    \/ \E t \in Threads : MapWriteDone(t)
    \/ \E t \in Threads, name \in Names : IsEnabledStart(t, 0, name)
    \/ \E t \in Threads : MapReadDone(t)

SpecConc == Init /\ [][NextConc]_vars

---------------------------------------------------------------------------
(* Vocabulary of the properties *)

\* f and g spell the same flag
SameFlag(f, g) == ToLower(f) = ToLower(g)

\* the contexts on the heap, context.Background() included
Contexts == 0..Len(ctxs)

\* the nodes of the chain that starts at c
RECURSIVE Chain(_, _)
Chain(h, c) == IF c = 0 THEN {} ELSE {c} \cup Chain(h, h[c].parent)

\* context c holds no value for flag f, under any spelling
NoCtxValue(c, f) == \A n \in Chain(ctxs, c) : ~SameFlag(ctxs[n].key, f)

\* the value of X_FEATURE_<UPPER(f)>, "" when unset
EnvValue(f) == Getenv(EnvPrefix \o ToUpper(f))

\* the registry entry of flag f: the one under its lower-cased name
RegistryValue(f) == MapGet(defaultState, ToLower(f))

\* The true literals as the specification lists them, and with "True".
ListedTrue ==
    { <<"t","r","u","e">>, <<"T","R","U","E">>, <<"t">>, <<"T">>, <<"1">> }

ListedTrueAndTitle == ListedTrue \cup { <<"T","r","u","e">> }

---------------------------------------------------------------------------
(* C1 *)

\* C1: a context that has boolean b recorded for f by EnableInCtx /
\* DisableInCtx resolves f to b, whatever the environment and the registry
\* hold: for every node c the derivation returned, with f its key and b its
\* value, IsEnabled(c, f) = b.
C1_CtxValueDecides ==
    \A c \in 1..Len(ctxs) : IsEnabled(c, ctxs[c].key) = ctxs[c].val

---------------------------------------------------------------------------
(* C2 *)

\* the resolution C2 describes, with trues the literals that parse to true
EnvThenRegistry(trues) ==
    \A c \in Contexts, f \in Names :
        NoCtxValue(c, f) =>
            IF EnvValue(f) # <<>>
            THEN IsEnabled(c, f) = (EnvValue(f) \in trues)
            ELSE IsEnabled(c, f) = RegistryValue(f)

\* C2 as stated: with no context value, a non-empty X_FEATURE_<UPPER(f)>
\* decides by its boolean parse, true for true/TRUE/t/T/1 and false for
\* every other non-empty string, whatever the registry holds; unset or empty,
\* the registry value is returned.
C2_EnvAsListed == EnvThenRegistry(ListedTrue)

\* C2 amended: the same, with True among the literals that parse to true.
C2_EnvOverridesRegistry == EnvThenRegistry(ListedTrueAndTitle)

\* the environment says false (a false literal, or garbage) while the
\* registry says true, and the flag resolves false; the variable can also
\* be set to the empty string, and then the registry's true is returned
C2_Witness ==
    /\ RegistryValue(pg)
    /\ EnvValue(pg) \in { <<"0">>, <<"y","e","s">> }
    /\ ~IsEnabled(0, pg)
    /\ \E c \in 1..Len(ctxs) : NoCtxValue(c, pg) /\ ~IsEnabled(c, pg)

---------------------------------------------------------------------------
(* C3 *)

\* a step leaves the resolution of f alone in every context
SameResolution(f) == \A c \in Contexts : IsEnabled(c, f)' = IsEnabled(c, f)

\* C3: with no context value and no environment value for f, IsEnabled
\* returns what the most recent Enable or Disable on f set (lastCall, kept
\* per flag: names are case-insensitive), and false when there was none; IsEnabled changes no registry entry; Enable and Disable
\* on one flag leave the resolution of every other flag alone.
C3_LastCallDecides ==
    /\ [](\A c \in Contexts, f \in Names :
            (NoCtxValue(c, f) /\ EnvValue(f) = <<>>)
                => IsEnabled(c, f) = (lastCall[ToLower(f)] = "Enable"))
    /\ [][ /\ \A c \in Contexts, f \in Names :
                IsEnabledCall(c, f) => defaultState' = defaultState
           /\ \A g \in Names :
                (Enable(g) \/ Disable(g))
                    => \A f \in Names : ~SameFlag(f, g) => SameResolution(f)
         ]_vars

---------------------------------------------------------------------------
(* C4 *)

\* the registry holds at most one entry per flag
OneEntryPerFlag ==
    \A f, g \in DOMAIN defaultState : SameFlag(f, g) => f = g

\* C4: names are normalized where the registry is written: after Enable(f)
\* every spelling g of the flag resolves true and after Disable(f) false
\* (no context value, no environment value), and the registry never holds
\* two entries for names that differ only in case.
C4_MutatorsNormalize ==
    /\ []OneEntryPerFlag
    /\ [][ \A f, g \in Names :
             (SameFlag(f, g) /\ EnvValue(g)' = <<>>) =>
                /\ Enable(f) => IsEnabled(0, g)' = TRUE
                /\ Disable(f) => IsEnabled(0, g)' = FALSE
         ]_vars

---------------------------------------------------------------------------
(* C5 *)

\* C5: names are case-insensitive for context derivation: the context that
\* EnableInCtx(ctx, f) / DisableInCtx(ctx, f) returns resolves every
\* spelling g of f to the recorded value, whatever the environment and the
\* registry hold.
C5_CtxNamesCaseInsensitive ==
    \A c \in 1..Len(ctxs), g \in Names :
        SameFlag(g, ctxs[c].key) => IsEnabled(c, g) = ctxs[c].val

---------------------------------------------------------------------------
(* C8 *)

\* a step leaves every context that exists, and what it resolves, alone
OldContextsKept ==
    /\ \A c \in 1..Len(ctxs) : c <= Len(ctxs') /\ ctxs'[c] = ctxs[c]
    /\ \A c \in Contexts, g \in Names : IsEnabled(c, g)' = IsEnabled(c, g)

\* C8: derivation is copy-on-write: EnableInCtx, DisableInCtx and
\* ReqWithFeatureCtx leave the input context, the input request and the
\* registry as they were, only the returned value observes the new value,
\* and two contexts derived from one parent with opposite values for a flag
\* each resolve it to their own value.
C8_CopyOnWrite ==
    /\ [](\A a, b \in 1..Len(ctxs) :
            ( /\ ctxs[a].parent = ctxs[b].parent
              /\ ctxs[a].key = ctxs[b].key
              /\ ctxs[a].val # ctxs[b].val )
            => /\ IsEnabled(a, ctxs[a].key) = ctxs[a].val
               /\ IsEnabled(b, ctxs[b].key) = ctxs[b].val)
    /\ [][ /\ \A c \in Contexts, f \in Names :
                (EnableInCtx(c, f) \/ DisableInCtx(c, f))
                    => /\ OldContextsKept
                       /\ defaultState' = defaultState
                       /\ reqs' = reqs
           /\ \A r \in 1..Len(reqs) :
                ReqWithFeatureCtx(r)
                    => /\ OldContextsKept
                       /\ defaultState' = defaultState
                       /\ \A q \in 1..Len(reqs) : reqs'[q] = reqs[q]
         ]_vars

---------------------------------------------------------------------------
(* Requests *)

\* key carries the prefix, compared in lower case
Carries(key, prefix) == HasPrefix(ToLower(key), prefix)

\* the keys of a collection that name flag f: prefix + f, in any casing
NamedBy(values, prefix, f) ==
    {k \in DOMAIN values : ToLower(k) = prefix \o ToLower(f)}

\* the boolean a query or header value stands for, with trues the literals
\* that parse to true: the empty string and those
Stands(v, trues) == v = <<>> \/ v \in trues

\* the requests ReqWithFeatureCtx returned (reqs[1] is the inbound one)
Derived == 2..Len(reqs)

---------------------------------------------------------------------------
(* C6 *)

\* C6: when one request names a flag both in a query parameter and in a
\* header, the context of ReqWithFeatureCtx(req) resolves the flag to the
\* header's value, for every pair of values and every casing of the keys.
C6_HeaderWins ==
    \A r \in Derived, f \in Names :
        LET q == NamedBy(reqs[r].query, QueryPrefix, f)
            h == NamedBy(reqs[r].header, HeaderPrefix, f)
        IN  (q # {} /\ h # {}) =>
                \A k \in h :
                    IsEnabled(reqs[r].ctx, f)
                        = Stands(Get(reqs[r].header, k), ListedTrueAndTitle)

\* a request with Feature-Pg=1 in the query and X-Feature-Pg:
\* false in the headers went through, the registry has pg enabled,
\* and the flag resolves false
C6_Witness ==
    \E r \in Derived :
        /\ \E k \in NamedBy(reqs[r].query, QueryPrefix, pg) :
              k # ToLower(k) /\ Get(reqs[r].query, k) = <<"1">>
        /\ \E k \in NamedBy(reqs[r].header, HeaderPrefix, pg) :
              Get(reqs[r].header, k) = <<"f","a","l","s","e">>
        /\ RegistryValue(pg)
        /\ ~IsEnabled(reqs[r].ctx, Pg)

---------------------------------------------------------------------------
(* C7 *)

\* what a step ReqWithFeatureCtx(r) records, with trues the literals that
\* parse to true
RecordsPerKey(r, trues) ==
    LET req == reqs[r]
        out == reqs'[Len(reqs')]
        added == (Len(ctxs) + 1)..Len(ctxs')
        qk == {k \in DOMAIN req.query : Carries(k, QueryPrefix)}
        hk == {k \in DOMAIN req.header : Carries(k, HeaderPrefix)}
    IN  /\ \A k \in qk : \E n \in added :
              /\ ToLower(k) = QueryPrefix \o ctxs'[n].key
              /\ ctxs'[n].val = Stands(Get(req.query, k), trues)
        /\ \A k \in hk : \E n \in added :
              /\ ToLower(k) = HeaderPrefix \o ctxs'[n].key
              /\ ctxs'[n].val = Stands(Get(req.header, k), trues)
        /\ Cardinality(added) = Cardinality(qk) + Cardinality(hk)
        /\ Chain(ctxs', out.ctx) = added \cup Chain(ctxs, req.ctx)
        /\ \A f \in Names :
              ( /\ NamedBy(req.query, QueryPrefix, f) = {}
                /\ NamedBy(req.header, HeaderPrefix, f) = {} )
              => IsEnabledIn(ctxs', out.ctx, f) = IsEnabled(req.ctx, f)

\* C7 as stated: every query parameter whose lower-cased key starts with
\* feature- and every header whose lower-cased key starts with x-feature-
\* is recorded under the lower-cased, prefix-stripped name: true for the
\* empty string and for true/TRUE/t/T/1, false for every other value; other
\* keys record nothing and their flags resolve as before.
C7_RecordsAsListed ==
    [][\A r \in 1..Len(reqs) :
          (Len(reqs') > Len(reqs) /\ ReqWithFeatureCtx(r))
              => RecordsPerKey(r, ListedTrue)]_vars

\* C7 amended: the same, with True among the values recorded as true.
C7_RecordsPerKey ==
    [][\A r \in 1..Len(reqs) :
          (Len(reqs') > Len(reqs) /\ ReqWithFeatureCtx(r))
              => RecordsPerKey(r, ListedTrueAndTitle)]_vars

\* a request with a valueless feature- parameter and a parameter without
\* the prefix went through: the flag resolves true from one recorded node
C7_Witness ==
    \E r \in Derived :
        /\ \E k \in DOMAIN reqs[r].query :
              Carries(k, QueryPrefix) /\ Get(reqs[r].query, k) = <<>>
        /\ \E k \in DOMAIN reqs[r].query : ~Carries(k, QueryPrefix)
        /\ DOMAIN reqs[r].header = {}
        /\ Cardinality(Chain(ctxs, reqs[r].ctx)) = 1
        /\ ctxs[reqs[r].ctx] = [parent |-> 0, key |-> pg, val |-> TRUE]
        /\ IsEnabled(reqs[r].ctx, Pg)

---------------------------------------------------------------------------
(* C9 *)

\* C9: the registry map is guarded: in every interleaving of Enable, Disable
\* and IsEnabled from several goroutines no two accesses to the map overlap
\* when one of them is a write, and the runtime never aborts on one.
C9_RegistryGuarded ==
    /\ ~crashed
    /\ \A t, u \in Threads :
          t # u => ~( /\ InFlight(t)
                      /\ InFlight(u)
                      /\ (th[t].op = "write" \/ th[u].op = "write") )

---------------------------------------------------------------------------
(* C10 *)

\* C10: when a flag occurs more than once in one collection, the last
\* occurrence decides: a key given several values resolves to its last
\* value (headers after the query), and requests with the same query and
\* headers resolve alike whatever order the collection was visited in.
C10_LastOccurrenceWins ==
    /\ \A r \in Derived, f \in Names :
          LET q == NamedBy(reqs[r].query, QueryPrefix, f)
              h == NamedBy(reqs[r].header, HeaderPrefix, f)
              one == IF h # {} THEN h ELSE q
              values == IF h # {} THEN reqs[r].header ELSE reqs[r].query
          IN  Cardinality(one) = 1 =>
                \A k \in one :
                    IsEnabled(reqs[r].ctx, f)
                        = Stands(values[k][Len(values[k])], ListedTrueAndTitle)
    /\ \A a, b \in Derived :
          ( /\ reqs[a].query = reqs[b].query
            /\ reqs[a].header = reqs[b].header )
          => \A f \in Names :
                IsEnabled(reqs[a].ctx, f) = IsEnabled(reqs[b].ctx, f)

====
